---- MODULE Spec2Model ----
(***************************************************************************)
(* A model of the health-chatbot RAG backend.                              *)
(*                                                                         *)
(*   main.py               the POST /search handler and the query-time     *)
(*                         embedding call (generate_text_embedding)        *)
(*   populate_database.py  the ingestion script: load, chunk, embed,       *)
(*                         upload in batches                               *)
(*                                                                         *)
(* Python strings are sequences of one-character strings.  A Python float  *)
(* is a rational [n, d] (value n/d), so that a mean is exact.  JSON values *)
(* are tagged records [t, v, items].                                       *)
(***************************************************************************)
EXTENDS Integers, Sequences, FiniteSets, TLC

VARIABLES
    HF_API_TOKEN,     \* main.py: TRUE iff the provider token is set
    pc,               \* position of the /search handler
    hf_reply,         \* what the provider answered to the POST, if it was sent
    http_calls,       \* number of requests.post calls of this request
    embedding,        \* outcome of generate_text_embedding
    log,              \* what generate_text_embedding logged
    rpc_calls,        \* arguments of every supabase.rpc call of this request
    rpc_reply,        \* what the store answered to the RPC
    response,         \* the HTTP response of the request
    folder,           \* populate_database.py: os.listdir of health_data
    file_idx,         \* number of files of the listing already visited
    documents,        \* loaded documents
    doc_idx,          \* number of documents already chunked
    all_chunks,       \* chunks produced so far
    data_to_insert,   \* records prepared for upload
    batch_i,          \* the loop variable i of the upload loop
    attempts,         \* insert attempts made so far
    table,            \* rows of health_knowledge_base
    ipc               \* position of the ingestion script

searchVars == <<HF_API_TOKEN, pc, hf_reply, http_calls, embedding, log,
                rpc_calls, rpc_reply, response>>
ingestVars == <<folder, file_idx, documents, doc_idx, all_chunks, data_to_insert,
                batch_i, attempts, table, ipc>>
vars == <<HF_API_TOKEN, pc, hf_reply, http_calls, embedding, log,
          rpc_calls, rpc_reply, response,
          folder, file_idx, documents, doc_idx, all_chunks, data_to_insert,
          batch_i, attempts, table, ipc>>

----------------------------------------------------------------------------
(* Bounds of the model *)

\* longest outer list of a provider response body (token vectors)
MaxTokens == 2
\* longest inner list of a provider response body (dimensions)
MaxDim == 1
\* most rows the store RPC returns
MaxRows == 2

----------------------------------------------------------------------------
(* Generic helpers *)

SeqsUpTo(S, n) == UNION {[1..k -> S] : k \in 0..n}

Range(s) == {s[k] : k \in 1..Len(s)}

Max(a, b) == IF a >= b THEN a ELSE b

\* every duplicate-free sequence whose elements are exactly those of S
Orderings(S) ==
    {s \in [1..Cardinality(S) -> S] : Range(s) = S}

----------------------------------------------------------------------------
(* JSON values of a provider response body *)

Num(n) == [t |-> "num", v |-> n, items |-> <<>>]
\* a one-character non-numeric string, such as "x"
Str == [t |-> "str", v |-> 0, items |-> <<>>]
\* a one-character numeric string, "2"
NumStr == [t |-> "numstr", v |-> 2, items |-> <<>>]
Null == [t |-> "null", v |-> 0, items |-> <<>>]
\* a JSON object such as {"error": "..."}
Dict == [t |-> "dict", v |-> 0, items |-> <<>>]
List(items) == [t |-> "list", v |-> 0, items |-> items]
\* a list where a number is expected: one level too deep
Nested == List(<<Num(1)>>)

Elems == {Num(1), Num(3), Str, NumStr, Null, Nested}
Rows == {List(r) : r \in SeqsUpTo(Elems, MaxDim)} \cup (Elems \ {Nested})
Bodies == {List(d) : d \in SeqsUpTo(Rows, MaxTokens)}
            \cup {Num(1), Str, Null, Dict}

\* isinstance(x, list)
IsList(x) == x.t = "list"
\* isinstance(x, (int, float))
IsNumber(x) == x.t = "num"

\* a Python float as a rational
Float(n, d) == [n |-> n, d |-> d]

\* how a call ends: it returns vec, or raises exc
Ok(vec) == [kind |-> "ok", exc |-> "none", vec |-> vec]
Raise(exc) == [kind |-> "raise", exc |-> exc, vec |-> <<>>]
\* the call has not been made
NotCalled == [kind |-> "pending", exc |-> "none", vec |-> <<>>, posted |-> FALSE]
\* an outcome, with whether requests.post was called on the way
WithPost(out, posted) ==
    [kind |-> out.kind, exc |-> out.exc, vec |-> out.vec, posted |-> posted]

\* float(val): the exception it raises, "none" when it returns
FloatExc(val) ==
    CASE val.t \in {"num", "numstr"} -> "none"
      [] val.t = "str" -> "ValueError"
      [] OTHER -> "TypeError"

\* enumerate(vec): the items a for loop over vec visits; a one-character
\* string yields itself, a number or null is not iterable, an object yields
\* its keys
IterExc(vec) == IF vec.t \in {"num", "null"} THEN "TypeError" ELSE "none"
IterItems(vec) ==
    CASE vec.t = "list" -> vec.items
      [] vec.t \in {"str", "numstr"} -> <<vec>>
      [] vec.t = "dict" -> <<Str>>
      [] OTHER -> <<>>

\* the inner loop: for i, val in enumerate(vec): sums[i] += float(val)
\* sums[i] is read before float(val) is called
RECURSIVE AddItems(_, _, _)
AddItems(sums, items, i) ==
    IF i > Len(items) THEN [exc |-> "none", sums |-> sums]
    ELSE IF i > Len(sums) THEN [exc |-> "IndexError", sums |-> sums]
    ELSE IF FloatExc(items[i]) # "none"
         THEN [exc |-> FloatExc(items[i]), sums |-> sums]
    ELSE AddItems([sums EXCEPT ![i] = @ + items[i].v], items, i + 1)

\* the outer loop: for vec in token_vectors
RECURSIVE PoolRows(_, _, _)
PoolRows(sums, token_vectors, k) ==
    IF k > Len(token_vectors) THEN [exc |-> "none", sums |-> sums]
    ELSE IF IterExc(token_vectors[k]) # "none"
         THEN [exc |-> IterExc(token_vectors[k]), sums |-> sums]
    ELSE LET r == AddItems(sums, IterItems(token_vectors[k]), 1)
         IN  IF r.exc # "none" THEN r
             ELSE PoolRows(r.sums, token_vectors, k + 1)

\* lines 63-79: the shape heuristic and the mean pooling
NormalizeShape(data) ==
    IF /\ IsList(data)
       /\ Len(data.items) > 0
       /\ IsList(data.items[1])
       /\ \A k \in 1..Len(data.items[1].items) : IsNumber(data.items[1].items[k])
    THEN IF \A k \in 1..Len(data.items) : IsNumber(data.items[k])
         THEN Ok([k \in 1..Len(data.items) |-> Float(data.items[k].v, 1)])
         ELSE LET token_vectors == data.items
                  dim == Len(token_vectors[1].items)
                  r == PoolRows([k \in 1..dim |-> 0], token_vectors, 1)
              IN  IF r.exc # "none" THEN Raise(r.exc)
                  ELSE Ok([k \in 1..dim |->
                             Float(r.sums[k], Max(1, Len(token_vectors)))])
    ELSE Raise("RuntimeError")

----------------------------------------------------------------------------
(* The provider's answer to the POST *)

NoReply == [net |-> "none", status |-> 0, decodable |-> FALSE, data |-> Null]
NetworkError == [net |-> "error", status |-> 0, decodable |-> FALSE, data |-> Null]
HttpReply(status, decodable, data) ==
    [net |-> "ok", status |-> status, decodable |-> decodable, data |-> data]

Replies ==
    {NetworkError}
      \cup {HttpReply(s, FALSE, Null) : s \in {401, 404, 500}}
      \cup {HttpReply(200, FALSE, Null)}
      \cup {HttpReply(200, TRUE, d) : d \in Bodies}

\* what lines 47-58 log
LogOf(reply) ==
    CASE reply.net = "none" -> "none"
      [] reply.net = "error" -> "request_failed"
      [] reply.status = 401 -> "unauthorized"
      [] reply.status = 404 -> "model_not_found"
      [] reply.status >= 400 -> "http_error"
      [] ~reply.decodable -> "request_failed"
      [] OTHER -> "none"

\* generate_text_embedding without the check of lines 37-38
generate_text_embedding_NoTokenCheck(token, reply) ==
    IF reply.net = "error" THEN WithPost(Raise("ConnectionError"), TRUE)
    ELSE IF reply.status >= 400 /\ reply.status < 600
         THEN WithPost(Raise("HTTPError"), TRUE)
    ELSE IF ~reply.decodable THEN WithPost(Raise("JSONDecodeError"), TRUE)
    ELSE WithPost(NormalizeShape(reply.data), TRUE)

\* generate_text_embedding(text): the vector it returns or the exception it
\* raises, given the token and the provider's answer
generate_text_embedding(token, reply) ==
    IF ~token THEN WithPost(Raise("ValueError"), FALSE)
    ELSE IF reply.net = "error" THEN WithPost(Raise("ConnectionError"), TRUE)
    ELSE IF reply.status >= 400 /\ reply.status < 600
         THEN WithPost(Raise("HTTPError"), TRUE)
    ELSE IF ~reply.decodable THEN WithPost(Raise("JSONDecodeError"), TRUE)
    ELSE WithPost(NormalizeShape(reply.data), TRUE)

\* issubclass(exc, ValueError): json's and requests' JSONDecodeError derive
\* from ValueError
IsValueError(exc) == exc \in {"ValueError", "JSONDecodeError"}

----------------------------------------------------------------------------
(* The store's answer to the RPC match_health_documents *)

Contents == {<<"a">>, <<"b", "c">>}
Sources == {"x.txt", "y.txt"}

\* a row of the result set: meta is "ok" (metadata has a source key),
\* "nosource" (metadata is an object without it) or "none" (metadata is null)
Row(has_content, content, meta, source) ==
    [has_content |-> has_content, content |-> content,
     meta |-> meta, source |-> source]

StoreRows ==
    {Row(TRUE, c, "ok", s) : c \in Contents, s \in Sources}
      \cup {Row(FALSE, <<>>, "ok", "x.txt"),
            Row(TRUE, <<"a">>, "nosource", ""),
            Row(TRUE, <<"a">>, "none", "")}

NoRpcReply == [raises |-> FALSE, has_data |-> FALSE, rows |-> <<>>]
RpcRaises == [raises |-> TRUE, has_data |-> FALSE, rows |-> <<>>]
RpcData(rows) == [raises |-> FALSE, has_data |-> TRUE, rows |-> rows]

RpcReplies ==
    {RpcRaises, NoRpcReply} \cup {RpcData(r) : r \in SeqsUpTo(StoreRows, MaxRows)}

\* 'match_threshold': 0.70, in hundredths
match_threshold == 70
\* 'match_count': 3
match_count == 3

RpcArgs(query_embedding) ==
    [fn |-> "match_health_documents",
     query_embedding |-> query_embedding,
     match_threshold |-> match_threshold,
     match_count |-> match_count]

\* the separator "\n\n---\n\n"
Separator == <<"\n", "\n", "-", "-", "-", "\n", "\n">>

\* sep.join(parts)
RECURSIVE Join(_, _)
Join(sep, parts) ==
    IF Len(parts) = 0 THEN <<>>
    ELSE IF Len(parts) = 1 THEN parts[1]
    ELSE parts[1] \o sep \o Join(sep, Tail(parts))

\* [item['content'] for item in response.data]
ContentList(rows) == [k \in 1..Len(rows) |-> rows[k].content]

\* set([item['metadata']['source'] for item in response.data])
SourceSet(rows) == {rows[k].source : k \in 1..Len(rows)}

\* the exception lines 142-145 raise on these rows, "none" when they do not
RowsExc(rows) ==
    IF \E k \in 1..Len(rows) : ~rows[k].has_content THEN "KeyError"
    ELSE IF \E k \in 1..Len(rows) : rows[k].meta # "ok"
         THEN LET k == CHOOSE j \in 1..Len(rows) :
                          /\ rows[j].meta # "ok"
                          /\ \A m \in 1..(j - 1) : rows[m].meta = "ok"
              IN  IF rows[k].meta = "none" THEN "TypeError" ELSE "KeyError"
    ELSE "none"

\* the exception lines 142-145 raise on the store's answer: None is not
\* iterable
ProcessExc(reply) ==
    IF ~reply.has_data THEN "TypeError" ELSE RowsExc(reply.rows)

\* the sources of the rows, one per row, with no set in between
SourcesLists_NoSet(rows) == {[k \in 1..Len(rows) |-> rows[k].source]}

\* list(set(...)): the distinct sources, in whatever order the set yields
SourcesLists(rows) == Orderings(SourceSet(rows))

\* a handler that takes every answer to hold matches
HasMatches_Always(reply) == TRUE

\* getattr(response, 'data', None) is truthy
HasMatches(reply) == reply.has_data /\ Len(reply.rows) > 0

NoResponse == [status |-> 0, context |-> <<>>, sources |-> <<>>, exc |-> "none"]
Success(context, sources) ==
    [status |-> 200, context |-> context, sources |-> sources, exc |-> "none"]
\* raise HTTPException(status_code=...)
HttpError(status) ==
    [status |-> status, context |-> <<>>, sources |-> <<>>, exc |-> "HTTPException"]
\* an exception no handler catches: the framework answers 500
Unhandled(exc) ==
    [status |-> 500, context |-> <<>>, sources |-> <<>>, exc |-> exc]

----------------------------------------------------------------------------
(* POST /search *)

\* a handler that answers 503 to every embedding exception
EmbeddingFailureResponse_Always503(exc) == HttpError(503)

\* the response the handler maps an embedding exception to (lines 118-122)
EmbeddingFailureResponse(exc) ==
    IF IsValueError(exc) THEN HttpError(503) ELSE HttpError(502)

\* a handler that answers 503 to an RPC exception
RpcFailureResponse_As503 == HttpError(503)

\* the response the handler maps an RPC exception to (lines 132-134)
RpcFailureResponse == HttpError(502)

\* lines 116-122: step 1, the query embedding
EmbedStep ==
    /\ pc = "start"
    /\ \E reply \in Replies :
         LET out == generate_text_embedding(HF_API_TOKEN, reply)
             seen == IF out.posted THEN reply ELSE NoReply
         IN  /\ embedding' = out
             /\ hf_reply' = seen
             /\ http_calls' = IF out.posted THEN http_calls + 1 ELSE http_calls
             /\ log' = LogOf(seen)
             /\ IF out.kind = "raise"
                THEN /\ response' = EmbeddingFailureResponse(out.exc)
                     /\ pc' = "done"
                ELSE /\ response' = response
                     /\ pc' = "rpc"
    /\ UNCHANGED <<HF_API_TOKEN, rpc_calls, rpc_reply>>
    /\ UNCHANGED ingestVars

\* lines 126-134: step 2, the store RPC
RpcStep ==
    /\ pc = "rpc"
    /\ \E reply \in RpcReplies :
         /\ rpc_calls' = Append(rpc_calls, RpcArgs(embedding.vec))
         /\ rpc_reply' = reply
         /\ IF reply.raises
            THEN /\ response' = RpcFailureResponse
                 /\ pc' = "done"
            ELSE /\ response' = response
                 /\ pc' = "process"
    /\ UNCHANGED <<HF_API_TOKEN, hf_reply, http_calls, embedding, log>>
    /\ UNCHANGED ingestVars

\* lines 137-149: step 3, context and sources
ProcessStep ==
    /\ pc = "process"
    /\ IF HasMatches(rpc_reply)
       THEN IF ProcessExc(rpc_reply) # "none"
            THEN response' = Unhandled(ProcessExc(rpc_reply))
            ELSE \E sources \in SourcesLists(rpc_reply.rows) :
                   response' = Success(Join(Separator, ContentList(rpc_reply.rows)),
                                       sources)
       ELSE response' = Success(<<>>, <<>>)
    /\ pc' = "done"
    /\ UNCHANGED <<HF_API_TOKEN, hf_reply, http_calls, embedding, log,
                   rpc_calls, rpc_reply>>
    /\ UNCHANGED ingestVars

----------------------------------------------------------------------------
(* populate_database.py: strings, re.split and str.strip *)

\* longest total text of the files of the folder
MaxFolderChars == 5
\* most files in the folder
MaxFiles == 2
\* most records of an upload run
MaxRecords == 201
\* characters of a paragraph of an upload run
ParaWidth == 8

Alphabet == {"a", " ", "\n"}
\* the characters \s and str.strip() take for whitespace
IsSpace(c) == c \in {" ", "\n", "\t", "\r"}

Min(a, b) == IF a <= b THEN a ELSE b

\* the last index of the run of whitespace that follows position i
RECURSIVE WsRunEnd(_, _)
WsRunEnd(s, i) ==
    IF i + 1 <= Len(s) /\ IsSpace(s[i + 1]) THEN WsRunEnd(s, i + 1) ELSE i

\* a split on "\n\n" alone, with no whitespace allowed in between
MatchEnd_NoWs(s, i) ==
    IF s[i] = "\n" /\ i + 1 <= Len(s) /\ s[i + 1] = "\n" THEN i + 1 ELSE 0

\* where a match of \n\s*\n that starts at i ends, 0 when none starts there:
\* \s* is greedy and gives back until a \n follows
MatchEnd(s, i) ==
    IF s[i] # "\n" THEN 0
    ELSE LET ends == {j \in (i + 1)..WsRunEnd(s, i) : s[j] = "\n"}
         IN  IF ends = {} THEN 0
             ELSE CHOOSE j \in ends : \A m \in ends : m <= j

\* re.split(r'\n\s*\n', s), scanning from i with the current piece
\* starting at start
RECURSIVE SplitFrom(_, _, _)
SplitFrom(s, start, i) ==
    IF i > Len(s) THEN <<SubSeq(s, start, Len(s))>>
    ELSE IF MatchEnd(s, i) > 0
         THEN <<SubSeq(s, start, i - 1)>>
                \o SplitFrom(s, MatchEnd(s, i) + 1, MatchEnd(s, i) + 1)
    ELSE SplitFrom(s, start, i + 1)

re_split(s) == SplitFrom(s, 1, 1)

RECURSIVE LStrip(_)
LStrip(s) == IF Len(s) > 0 /\ IsSpace(s[1]) THEN LStrip(Tail(s)) ELSE s

RECURSIVE RStrip(_)
RStrip(s) ==
    IF Len(s) > 0 /\ IsSpace(s[Len(s)])
    THEN RStrip(SubSeq(s, 1, Len(s) - 1)) ELSE s

\* s.strip()
strip(s) == RStrip(LStrip(s))

\* the loop of chunk_document over content_chunks[k..]
RECURSIVE ChunkLoop(_, _, _)
ChunkLoop(content_chunks, metadata, k) ==
    IF k > Len(content_chunks) THEN <<>>
    ELSE LET stripped_chunk == strip(content_chunks[k])
         IN  (IF Len(stripped_chunk) > 0
              THEN <<[content |-> stripped_chunk, metadata |-> metadata]>>
              ELSE <<>>)
               \o ChunkLoop(content_chunks, metadata, k + 1)

chunk_document(document) ==
    ChunkLoop(re_split(document.content), document.metadata, 1)

----------------------------------------------------------------------------
(* populate_database.py: the folder and the pipeline *)

TxtNames == <<"a.txt", "b.txt", "c.txt", "d.txt">>
OtherNames == <<"a.md", "b.md", "c.md", "d.md">>

\* filename.endswith(".txt")
EndsWithTxt(filename) == filename \in Range(TxtNames)

Strings(n) == SeqsUpTo(Alphabet, n)

\* os.listdir: n names in the order the system lists them, each a .txt file
\* or not
Listings(n) ==
    {[k \in 1..n |-> IF txt[k] THEN TxtNames[k] ELSE OtherNames[k]] :
        txt \in [1..n -> BOOLEAN]}

Folders == UNION {Listings(n) : n \in 0..MaxFiles}

\* the characters read so far
RECURSIVE TotalChars(_)
TotalChars(docs) ==
    IF Len(docs) = 0 THEN 0 ELSE Len(docs[1].content) + TotalChars(Tail(docs))

\* lines 50-55: the document of a file
Document(filename, content) ==
    [content |-> content, metadata |-> [source |-> filename]]

\* 'all-MiniLM-L6-v2'
MODEL_NAME == "all-MiniLM-L6-v2"

\* model.encode: the vector the model gives a text, a function of the text
Encode(text) == [model |-> MODEL_NAME, of |-> text]

\* lines 105-117: one record per chunk, in order
PrepareRecords(chunks) ==
    [k \in 1..Len(chunks) |->
        [content |-> chunks[k].content,
         metadata |-> chunks[k].metadata,
         embedding |-> Encode(chunks[k].content)]]

\* batch_size = 100
batch_size == 100

\* data_to_insert[i:i + batch_size]
Batch(data, i) == SubSeq(data, i + 1, Min(i + batch_size, Len(data)))

\* a loop that steps one record too far
NextBatchIndex_OffByOne(i) == i + batch_size + 1

\* the value of i after the iteration for i
NextBatchIndex(i) == i + batch_size

\* lines 44-56: one iteration of the loop of load_documents_from_folder;
\* f.read() gives the file's text
LoadFile ==
    /\ ipc = "load"
    /\ file_idx < Len(folder)
    /\ LET filename == folder[file_idx + 1]
       IN  IF EndsWithTxt(filename)
           THEN \E content \in Strings(MaxFolderChars - TotalChars(documents)) :
                  documents' = Append(documents, Document(filename, content))
           ELSE documents' = documents
    /\ file_idx' = file_idx + 1
    /\ UNCHANGED <<folder, doc_idx, all_chunks, data_to_insert, batch_i,
                   attempts, table, ipc>>
    /\ UNCHANGED searchVars

\* lines 57-58, 92: the listing is exhausted, the documents are returned
LoadDone ==
    /\ ipc = "load"
    /\ file_idx >= Len(folder)
    /\ ipc' = "chunk"
    /\ UNCHANGED <<folder, file_idx, documents, doc_idx, all_chunks,
                   data_to_insert, batch_i, attempts, table>>
    /\ UNCHANGED searchVars

\* lines 97-98: one iteration of the chunking loop
ChunkStep ==
    /\ ipc = "chunk"
    /\ doc_idx < Len(documents)
    /\ all_chunks' = all_chunks \o chunk_document(documents[doc_idx + 1])
    /\ doc_idx' = doc_idx + 1
    /\ UNCHANGED <<folder, file_idx, documents, data_to_insert, batch_i, attempts,
                   table, ipc>>
    /\ UNCHANGED searchVars

\* lines 105-119: Step 3, after the chunking loop ends
EmbedAllStep ==
    /\ ipc = "chunk"
    /\ doc_idx >= Len(documents)
    /\ data_to_insert' = PrepareRecords(all_chunks)
    /\ batch_i' = 0
    /\ ipc' = "upload"
    /\ UNCHANGED <<folder, file_idx, documents, doc_idx, all_chunks, attempts, table>>
    /\ UNCHANGED searchVars

\* lines 123-130: one iteration of the upload loop; the insert succeeds or
\* raises
UploadBatch ==
    /\ ipc = "upload"
    /\ batch_i < Len(data_to_insert)
    /\ \E ok \in BOOLEAN :
         LET batch == Batch(data_to_insert, batch_i)
         IN  /\ attempts' = Append(attempts,
                                   [i |-> batch_i, batch |-> batch, ok |-> ok])
             /\ table' = IF ok THEN table \o batch ELSE table
    /\ batch_i' = NextBatchIndex(batch_i)
    /\ UNCHANGED <<folder, file_idx, documents, doc_idx, all_chunks, data_to_insert, ipc>>
    /\ UNCHANGED searchVars

\* lines 132-134: the loop is over
Finish ==
    /\ ipc = "upload"
    /\ batch_i >= Len(data_to_insert)
    /\ ipc' = "done"
    /\ UNCHANGED <<folder, file_idx, documents, doc_idx, all_chunks, data_to_insert,
                   batch_i, attempts, table>>
    /\ UNCHANGED searchVars

SearchOff ==
    /\ HF_API_TOKEN = FALSE
    /\ pc = "off"
    /\ hf_reply = NoReply
    /\ http_calls = 0
    /\ embedding = NotCalled
    /\ log = "none"
    /\ rpc_calls = <<>>
    /\ rpc_reply = NoRpcReply
    /\ response = NoResponse

\* the script starts on a folder
InitIngest ==
    /\ folder \in Folders
    /\ file_idx = 0
    /\ documents = <<>>
    /\ doc_idx = 0
    /\ all_chunks = <<>>
    /\ data_to_insert = <<>>
    /\ batch_i = 0
    /\ attempts = <<>>
    /\ table = <<>>
    /\ ipc = "load"
    /\ SearchOff

NextIngest == LoadFile \/ LoadDone \/ ChunkStep \/ EmbedAllStep \/ UploadBatch \/ Finish

SpecIngest == InitIngest /\ [][NextIngest]_vars

\* a paragraph that differs from every other: k in binary on ParaWidth
\* digits, a for 0 and b for 1
Para(k) ==
    [d \in 1..ParaWidth |->
        IF (k \div 2^(ParaWidth - d)) % 2 = 0 THEN "a" ELSE "b"]

\* a text of n paragraphs separated by blank lines
BigContent(n) ==
    [j \in 1..(IF n = 0 THEN 0 ELSE n * (ParaWidth + 2) - 2) |->
        LET k == ((j - 1) \div (ParaWidth + 2)) + 1
            d == ((j - 1) % (ParaWidth + 2)) + 1
        IN  IF d <= ParaWidth THEN Para(k)[d] ELSE "\n"]

\* the chunks of that text
BigChunks(n, metadata) ==
    [k \in 1..n |-> [content |-> Para(k), metadata |-> metadata]]

\* the script has loaded, chunked and embedded one file of n paragraphs and
\* is about to upload
InitUpload ==
    \E n \in 0..MaxRecords :
        /\ folder = <<TxtNames[1]>>
        /\ file_idx = 1
        /\ documents = <<Document(TxtNames[1], BigContent(n))>>
        /\ doc_idx = 1
        /\ all_chunks = BigChunks(n, documents[1].metadata)
        /\ data_to_insert = PrepareRecords(all_chunks)
        /\ batch_i = 0
        /\ attempts = <<>>
        /\ table = <<>>
        /\ ipc = "upload"
        /\ SearchOff

NextUpload == UploadBatch \/ Finish

\* the script is sequential: an enabled step is taken
SpecUpload == InitUpload /\ [][NextUpload]_vars /\ WF_vars(NextUpload)

IngestOff ==
    /\ folder = <<>>
    /\ file_idx = 0
    /\ documents = <<>>
    /\ doc_idx = 0
    /\ all_chunks = <<>>
    /\ data_to_insert = <<>>
    /\ batch_i = 0
    /\ attempts = <<>>
    /\ table = <<>>
    /\ ipc = "off"

\* the service is up and a request has arrived
Init ==
    /\ HF_API_TOKEN \in BOOLEAN
    /\ pc = "start"
    /\ hf_reply = NoReply
    /\ http_calls = 0
    /\ embedding = NotCalled
    /\ log = "none"
    /\ rpc_calls = <<>>
    /\ rpc_reply = NoRpcReply
    /\ response = NoResponse
    /\ IngestOff

Next == EmbedStep \/ RpcStep \/ ProcessStep

Spec == Init /\ [][Next]_vars

----------------------------------------------------------------------------
(* Properties of POST /search *)

\* the request has been answered
Answered == pc = "done"

\* generate_text_embedding raised
EmbeddingFailed == embedding.kind = "raise"

\* the provider answered 200 with a body that decodes as JSON
ProviderAnswered ==
    hf_reply.net = "ok" /\ hf_reply.status = 200 /\ hf_reply.decodable

\* the original statement of C1: every failure of the embedding step is
\* answered 503
C1_EveryEmbeddingFailureIs503 ==
    (Answered /\ EmbeddingFailed) => response.status = 503

\* the failures of the embedding step that are ValueErrors: the token is
\* missing, the body does not decode, or pooling met a non-numeric string
FailedWithValueError ==
    \/ ~HF_API_TOKEN
    \/ hf_reply.net = "ok" /\ hf_reply.status = 200 /\ ~hf_reply.decodable
    \/ ProviderAnswered /\ embedding.exc = "ValueError"

(* C1, amended: a failure of the embedding step is answered 503 when it is  *)
(* a ValueError (missing token, undecodable body, a non-numeric string met  *)
(* while pooling) and 502 otherwise (provider HTTP error of any status,     *)
(* network error, any other unexpected shape); never any other status.      *)
C1_EmbeddingFailureIs503Or502 ==
    (Answered /\ EmbeddingFailed) =>
        /\ response.exc = "HTTPException"
        /\ response.status = IF FailedWithValueError THEN 503 ELSE 502
        /\ (hf_reply.net = "error" => response.status = 502)
        /\ (hf_reply.net = "ok" /\ hf_reply.status >= 400 => response.status = 502)
        /\ (embedding.exc = "RuntimeError" => response.status = 502)
        /\ rpc_calls = <<>>

\* C1, witness: a provider HTTP error has been answered 502
C1_Witness ==
    /\ Answered
    /\ EmbeddingFailed
    /\ hf_reply.net = "ok"
    /\ hf_reply.status = 404
    /\ response.status = 502

(* C2: with the token unset the request ends with a 503 response, and no    *)
(* request to the provider and no RPC is ever made.                         *)
C2_MissingTokenIs503WithoutCalls ==
    ~HF_API_TOKEN =>
        /\ http_calls = 0
        /\ rpc_calls = <<>>
        /\ hf_reply = NoReply
        /\ pc \in {"start", "done"}
        /\ Answered => /\ response.status = 503
                       /\ response.exc = "HTTPException"

\* C2, witness: a request answered with the token unset
C2_Witness == ~HF_API_TOKEN /\ Answered /\ response.status = 503

(* C3: when the embedding succeeded and the RPC raises the answer is 502;   *)
(* the RPC is called at most once, only after the embedding succeeded, and  *)
(* always with match_threshold 0.70 and match_count 3.                      *)
C3_RpcFailureIs502CalledOnce ==
    /\ Len(rpc_calls) <= 1
    /\ \A k \in 1..Len(rpc_calls) :
         /\ embedding.kind = "ok"
         /\ rpc_calls[k].fn = "match_health_documents"
         /\ rpc_calls[k].query_embedding = embedding.vec
         /\ rpc_calls[k].match_threshold = 70
         /\ rpc_calls[k].match_count = 3
    /\ (Answered /\ embedding.kind = "ok" /\ rpc_reply.raises) =>
         /\ response.status = 502
         /\ response.exc = "HTTPException"
         /\ Len(rpc_calls) = 1

\* C3, witness: the RPC raised after a successful embedding
C3_Witness ==
    /\ Answered
    /\ embedding.kind = "ok"
    /\ rpc_reply.raises
    /\ Len(rpc_calls) = 1
    /\ response.status = 502

\* the RPC was made and returned
RpcReturned == Len(rpc_calls) = 1 /\ ~rpc_reply.raises

\* the store returned no data at all, or an empty list
EmptyResult == ~rpc_reply.has_data \/ rpc_reply.rows = <<>>

(* C4: when embedding and RPC succeed and the result set is empty (an empty *)
(* list, or no data), the answer is a success with context "" and sources   *)
(* [], never an error.                                                      *)
C4_EmptyResultIsEmptySuccess ==
    (Answered /\ embedding.kind = "ok" /\ RpcReturned /\ EmptyResult) =>
        /\ response.status = 200
        /\ response.exc = "none"
        /\ response.context = <<>>
        /\ response.sources = <<>>

\* C4, witness: the store returned no data and the request was answered
C4_Witness ==
    /\ Answered
    /\ embedding.kind = "ok"
    /\ RpcReturned
    /\ ~rpc_reply.has_data
    /\ response.status = 200

\* every row carries content and metadata.source
RowsWellFormed(rows) ==
    \A k \in 1..Len(rows) : rows[k].has_content /\ rows[k].meta = "ok"

(* C5: for a non-empty list of matched rows the sources list holds each     *)
(* distinct metadata.source of the rows exactly once and nothing else,      *)
(* however many rows share a source.                                        *)
C5_SourcesAreTheDistinctSources ==
    (Answered /\ embedding.kind = "ok" /\ RpcReturned /\ ~EmptyResult
       /\ RowsWellFormed(rpc_reply.rows)) =>
        /\ response.status = 200
        /\ \A k \in 1..Len(rpc_reply.rows) :
             Cardinality({j \in 1..Len(response.sources) :
                            response.sources[j] = rpc_reply.rows[k].source}) = 1
        /\ \A j \in 1..Len(response.sources) :
             \E k \in 1..Len(rpc_reply.rows) :
               response.sources[j] = rpc_reply.rows[k].source

\* C5, witness: two rows of one source, answered with that source once
C5_Witness ==
    /\ Answered
    /\ response.status = 200
    /\ Len(rpc_reply.rows) = 2
    /\ rpc_reply.rows[1].source = rpc_reply.rows[2].source
    /\ rpc_reply.rows[1].content # rpc_reply.rows[2].content
    /\ Len(response.sources) = 1

\* a single flat vector of d >= 1 numbers
IsFlatVector(data) ==
    /\ IsList(data)
    /\ Len(data.items) >= 1
    /\ \A k \in 1..Len(data.items) : IsNumber(data.items[k])

\* t >= 1 token vectors, each of the same d >= 1 numbers
IsTokenMatrix(data) ==
    /\ IsList(data)
    /\ Len(data.items) >= 1
    /\ \A k \in 1..Len(data.items) :
         /\ IsList(data.items[k])
         /\ Len(data.items[k].items) = Len(data.items[1].items)
         /\ Len(data.items[k].items) >= 1
         /\ \A j \in 1..Len(data.items[k].items) : IsNumber(data.items[k].items[j])

Malformed(data) == ~IsFlatVector(data) /\ ~IsTokenMatrix(data)

(* C6: for every malformed body (not a list, empty list, deeper nesting,    *)
(* rows of mismatched lengths, non-numeric elements) the call fails and     *)
(* returns no vector; it never returns a vector of length 0.                *)
C6_MalformedBodyNeverYieldsVector ==
    /\ (ProviderAnswered /\ Malformed(hf_reply.data)) => embedding.kind = "raise"
    /\ embedding.kind = "ok" => Len(embedding.vec) > 0

\* the sum of the i-th components of the rows k..
RECURSIVE ColumnSum(_, _, _)
ColumnSum(rows, i, k) ==
    IF k > Len(rows) THEN 0
    ELSE rows[k].items[i].v + ColumnSum(rows, i, k + 1)

(* C7: a flat vector of d numbers is returned unchanged; t >= 1 token       *)
(* vectors of d numbers give the vector of their component-wise means.      *)
C7_AcceptsBothShapes ==
    ProviderAnswered =>
        /\ IsFlatVector(hf_reply.data) =>
             /\ embedding.kind = "ok"
             /\ embedding.vec =
                  [k \in 1..Len(hf_reply.data.items) |->
                      Float(hf_reply.data.items[k].v, 1)]
        /\ IsTokenMatrix(hf_reply.data) =>
             /\ embedding.kind = "ok"
             /\ Len(embedding.vec) = Len(hf_reply.data.items[1].items)
             /\ \A i \in 1..Len(embedding.vec) :
                  embedding.vec[i].n * Len(hf_reply.data.items)
                    = embedding.vec[i].d * ColumnSum(hf_reply.data.items, i, 1)

(* C10: every request ends as a success carrying context and sources, a     *)
(* 503 or a 502, never with an unhandled exception, whatever rows the store *)
(* returns; on success the context is the rows' contents, in order, joined  *)
(* by "\n\n---\n\n".                                                        *)
C10_ThreeOutcomes ==
    Answered =>
        /\ response.status \in {200, 502, 503}
        /\ response.exc \in {"none", "HTTPException"}
        /\ response.status = 200 =>
             response.context =
                Join(<<"\n", "\n", "-", "-", "-", "\n", "\n">>,
                     [k \in 1..Len(rpc_reply.rows) |-> rpc_reply.rows[k].content])

----------------------------------------------------------------------------
(* Properties of the ingestion script *)

\* the positions of s that hold no whitespace
NonSpace(s) == {k \in 1..Len(s) : ~IsSpace(s[k])}

\* a blank-line boundary lies between positions a and b: a newline,
\* whitespace only, and a newline
BlankLineBetween(s, a, b) ==
    \E i \in (a + 1)..(b - 1) : \E j \in (i + 1)..(b - 1) :
        /\ s[i] = "\n"
        /\ s[j] = "\n"
        /\ \A m \in i..j : IsSpace(s[m])

\* where a paragraph starts: a non-space character with a blank-line
\* boundary between it and every earlier non-space character
ParaStarts(s) ==
    {a \in NonSpace(s) :
        \A p \in NonSpace(s) : p < a => BlankLineBetween(s, p, a)}

\* where a paragraph ends
ParaEnds(s) ==
    {a \in NonSpace(s) :
        \A p \in NonSpace(s) : p > a => BlankLineBetween(s, a, p)}

\* the k-th smallest element of a set of numbers
Kth(S, k) == CHOOSE x \in S : Cardinality({y \in S : y < x}) = k - 1

\* the paragraphs of a document, in order, each with the document's metadata
Paragraphs(document) ==
    LET s == document.content
    IN  [k \in 1..Cardinality(ParaStarts(s)) |->
            [content |-> SubSeq(s, Kth(ParaStarts(s), k), Kth(ParaEnds(s), k)),
             metadata |-> document.metadata]]

\* the paragraphs of the first n documents, in order
RECURSIVE ParagraphsOfFirst(_, _)
ParagraphsOfFirst(docs, n) ==
    IF n = 0 THEN <<>>
    ELSE ParagraphsOfFirst(docs, n - 1) \o Paragraphs(docs[n])

\* the number of paragraphs of the first n documents
RECURSIVE ParagraphCount(_, _)
ParagraphCount(docs, n) ==
    IF n = 0 THEN 0
    ELSE ParagraphCount(docs, n - 1) + Cardinality(ParaStarts(docs[n].content))

(* C8: the chunks are the non-empty paragraphs of the documents, split on   *)
(* blank-line boundaries and stripped: their number is the sum of the       *)
(* documents' paragraph counts, each has non-empty content and its          *)
(* document's metadata, in the order of documents and of paragraphs.        *)
C8_ChunksAreTheParagraphs ==
    /\ doc_idx <= Len(documents)
    /\ Len(all_chunks) = ParagraphCount(documents, doc_idx)
    /\ all_chunks = ParagraphsOfFirst(documents, doc_idx)
    /\ \A k \in 1..Len(all_chunks) : Len(all_chunks[k].content) > 0
    /\ ipc \in {"upload", "done"} =>
         /\ doc_idx = Len(documents)
         /\ Len(data_to_insert) = ParagraphCount(documents, Len(documents))

\* C8, witness: two documents chunked, one of two paragraphs, one of one
C8_Witness ==
    /\ ipc = "upload"
    /\ Len(documents) = 2
    /\ Len(all_chunks) = 3
    /\ all_chunks[1].metadata = all_chunks[2].metadata
    /\ all_chunks[3].metadata # all_chunks[1].metadata

\* the records of the attempts k.. that succeeded, in order
RECURSIVE SucceededFrom(_, _)
SucceededFrom(tries, k) ==
    IF k > Len(tries) THEN <<>>
    ELSE (IF tries[k].ok THEN tries[k].batch ELSE <<>>)
           \o SucceededFrom(tries, k + 1)

\* the records of the attempts k.., in order
RECURSIVE SubmittedFrom(_, _)
SubmittedFrom(tries, k) ==
    IF k > Len(tries) THEN <<>>
    ELSE tries[k].batch \o SubmittedFrom(tries, k + 1)

\* what C9 says of every state of an upload run of N records
C9_State ==
    LET N == Len(data_to_insert)
    IN  /\ \A k \in 1..Len(attempts) :
             /\ 100 * (k - 1) + 1 <= N
             /\ attempts[k].batch =
                  [j \in 1..(Min(100 * k, N) - 100 * (k - 1)) |->
                      data_to_insert[100 * (k - 1) + j]]
             /\ k < Len(attempts) => Len(attempts[k].batch) = 100
        /\ table = SucceededFrom(attempts, 1)
        /\ ipc = "done" =>
             /\ Len(attempts) = (N + 99) \div 100
             /\ SubmittedFrom(attempts, 1) = data_to_insert

(* C9: N records are uploaded in exactly ceil(N/100) attempts, the k-th     *)
(* carrying records 100(k-1)+1 .. min(100k, N); each attempt is made once   *)
(* whether or not an earlier one failed; the run reaches completion and the *)
(* table then holds exactly the records of the attempts that succeeded.     *)
C9_BatchedUploadCompletes == [](C9_State) /\ <>(ipc = "done")

\* C9, witness: a run of three attempts is complete; the first failed and
\* the later ones were still made, the last with one record
C9_Witness ==
    /\ ipc = "done"
    /\ Len(data_to_insert) = 201
    /\ Len(attempts) = 3
    /\ ~attempts[1].ok
    /\ attempts[2].ok
    /\ attempts[3].ok
    /\ Len(table) = 101

====
